---- MODULE Spec2Model ----
(***************************************************************************)
(* Cart / inventory reconciliation backend (Backend/routes/cart.js,         *)
(* Backend/routes/inventory.js and the Mongoose models they use).           *)
(*                                                                          *)
(* The three collections are functions from document _id to document.      *)
(* ObjectIds are fresh on every construction and never reused, so each      *)
(* collection has an allocation counter.  A find() returns documents in     *)
(* insertion order, which is _id order here; findOne returns the first.     *)
(* Every route handler is one action; `res` is the response it sent.        *)
(* Identifiers are canonical ObjectId strings and quantities are JSON       *)
(* numbers.                                                                 *)
(***************************************************************************)
EXTENDS Integers, Sequences, FiniteSets, TLC

VARIABLES inventories, carts, cartItems,
          nextInventoryId, nextCartId, nextCartItemId, res,
          users, requests

vars == <<inventories, carts, cartItems,
          nextInventoryId, nextCartId, nextCartItemId, res,
          users, requests>>

\* the User collection and the add requests that are under way
session == <<users, requests>>

store == <<inventories, carts, cartItems,
           nextInventoryId, nextCartId, nextCartItemId>>

----------------------------------------------------------------------------
(* Bounds of the model *)

MaxInventory == 2
MaxCarts == 2
MaxCartItems == 2
MaxBatch == 2
MaxQuantity == 2

(* Inputs *)

UserIds == {1, 2}
ItemNames == {"tape", "glue"}
CustomNames == {"rope"}
Links == {"l1"}
Remarks == {"r1"}
InventoryIdInputs == 1..(MaxInventory + 1)
CartIdInputs == 1..(MaxCarts + 1)
CartItemIdInputs == 1..(MaxCartItems + 1)
OrderedQuantityInputs == {0, 1}
ItemQuantityInputs == {-1, 2}
ItemStatusInputs == {"enabled", "archived"}
AllottedQuantityInputs == {-1, 1}

(* JavaScript null / undefined *)

Null == 0
Missing == -1
Undefined == "undefined"

(* Schema enums and the values the request validators accept *)

CartItemStatusEnum == {"Pending", "Ready", "Rejected", "Delivered", "Amazon"}
StatusValidatorValues == {"pending", "ready", "rejected", "delivered", "amazon"}
ItemStatusEnum == {"enabled", "disabled"}
ItemOrderedStatusEnum ==
    {"Available", "Ordered from Akshay", "Ordered from Amazon", "Not Available"}

----------------------------------------------------------------------------
(* Helpers *)

Min(S) == CHOOSE x \in S : \A y \in S : x <= y

Has(body, field) == field \in DOMAIN body

RECURSIVE SumSeq(_)
SumSeq(s) == IF s = <<>> THEN 0 ELSE Head(s) + SumSeq(Tail(s))

RECURSIVE SetToSeq(_)
\* the documents of a collection in natural (insertion) order
SetToSeq(S) == IF S = {} THEN <<>> ELSE <<Min(S)>> \o SetToSeq(S \ {Min(S)})

SeqsUpTo(S, n) == UNION {[1..k -> S] : k \in 0..n}

OptField(name, values) == {<<>>} \cup {name :> v : v \in values}

\* Model.findOne(filter): the first matching document's _id, Null if none
FindOne(matches) == IF matches = {} THEN Null ELSE Min(matches)

\* Cart.findOne({ userId })
FindCartByUser(userId) ==
    FindOne({c \in DOMAIN carts : carts[c].userId = userId})

\* a collection without the unique index: no insert is rejected
NoDuplicateKey(invs, itemName) == FALSE

\* the unique index on Inventory.itemName rejects an insert (E11000)
DuplicateKey(invs, itemName) ==
    \E i \in DOMAIN invs : invs[i].itemName = itemName

\* res.status(status).json(...): the route that answered, the status code and
\* which error body, if any, it sent
Response(route, status, error) ==
    [route |-> route, status |-> status, error |-> error]

----------------------------------------------------------------------------
(* The requests that may be under way at once *)

\* two add requests being served at the same time
Processes == {1, 2}

\* no request under way
Idle == [pc |-> "idle"]

----------------------------------------------------------------------------
(* Initial state: an empty database *)

Init ==
    /\ inventories = <<>>
    /\ carts = <<>>
    /\ cartItems = <<>>
    /\ nextInventoryId = 1
    /\ nextCartId = 1
    /\ nextCartItemId = 1
    /\ res = Response("none", 0, "")
    /\ users = <<>>
    /\ requests = [p \in Processes |-> Idle]

----------------------------------------------------------------------------
(* Inventory routes *)

\* validateInventoryInput
ValidInventoryInput(itemQuantity, itemStatus) ==
    itemQuantity >= 0 /\ itemStatus \in ItemStatusEnum

\* POST /inventory
CreateInventory(itemName, itemQuantity, itemStatus) ==
    /\ nextInventoryId <= MaxInventory
    /\ IF ~ValidInventoryInput(itemQuantity, itemStatus)
       THEN /\ res' = Response("create-inventory", 400, "validation")
            /\ UNCHANGED store
       ELSE IF DuplicateKey(inventories, itemName)
       THEN \* save() failed with code 11000
            /\ res' = Response("create-inventory", 400, "unique")
            /\ UNCHANGED store
       ELSE /\ inventories' = (nextInventoryId :>
                                 [itemName |-> itemName,
                                  itemQuantity |-> itemQuantity,
                                  itemStatus |-> itemStatus,
                                  itemOrderedStatus |-> "Available",
                                  itemRemark |-> Undefined]) @@ inventories
            /\ nextInventoryId' = nextInventoryId + 1
            /\ res' = Response("create-inventory", 201, "")
            /\ UNCHANGED <<carts, cartItems, nextCartId, nextCartItemId>>

\* a deleteOne in place of the deleteMany: only the first match goes
DeleteOneByItemId(items, id) ==
    LET matches == {j \in DOMAIN items : items[j].item_id = id}
    IN [k \in DOMAIN items \ (IF matches = {} THEN {} ELSE {Min(matches)})
          |-> items[k]]

\* CartItem.deleteMany({ item_id })
DeleteManyByItemId(items, id) ==
    [k \in {j \in DOMAIN items : items[j].item_id # id} |-> items[k]]

\* Inventory.findByIdAndDelete(id)
FindByIdAndDelete(invs, id) ==
    [k \in DOMAIN invs \ {id} |-> invs[k]]

\* DELETE /inventory/:id
DeleteInventory(id) ==
    /\ inventories' = FindByIdAndDelete(inventories, id)
    /\ cartItems' = DeleteManyByItemId(cartItems, id)
    /\ res' = IF id \in DOMAIN inventories
              THEN Response("delete-inventory", 200, "")
              ELSE Response("delete-inventory", 404, "not found")
    /\ UNCHANGED <<carts, nextInventoryId, nextCartId, nextCartItemId>>

----------------------------------------------------------------------------
(* Cart routes *)

\* new CartItem({...}) with the schema defaults
NewCartItem(cart, item_id, itemName, ordered_quantity, link) ==
    [cart |-> cart, item_id |-> item_id, itemName |-> itemName,
     ordered_quantity |-> ordered_quantity, allotted_quantity |-> 0,
     status |-> "Pending", remarks |-> Undefined, link |-> link]

\* an assignment in place of the +=
ReplaceOrdered(current, ordered_quantity) == ordered_quantity

\* existingCartItem.ordered_quantity += ordered_quantity
AccumulateOrdered(current, ordered_quantity) == current + ordered_quantity

\* the validators of POST /add-items
ValidAddItems(items) ==
    \A n \in 1..Len(items) : items[n].ordered_quantity >= 1

\* a lookup by the catalog item's current name in place of its id
MatchesItemName(doc, cartId, item_id) ==
    doc.cart = cartId /\ doc.itemName = inventories[item_id].itemName

\* the filter of CartItem.findOne({ cart: cart._id, item_id: item.item_id })
MatchesItemId(doc, cartId, item_id) ==
    doc.cart = cartId /\ doc.item_id = item_id

RECURSIVE AddItemsLoop(_, _, _, _, _)
\* for (let item of items) { ... }: the CartItem collection, the in-memory
\* cart.cartItems and the ObjectIds taken so far
AddItemsLoop(items, cartId, docs, local, nextId) ==
    IF items = <<>>
    THEN [status |-> 200, cartItems |-> docs, local |-> local, nextId |-> nextId]
    ELSE LET item == Head(items)
             existing == FindOne({k \in DOMAIN docs :
                                     MatchesItemId(docs[k], cartId,
                                                   item.item_id)})
         IN IF item.item_id \notin DOMAIN inventories
            THEN [status |-> 404, cartItems |-> docs, local |-> local,
                  nextId |-> nextId]
            ELSE IF existing # Null
            THEN AddItemsLoop(Tail(items), cartId,
                     [docs EXCEPT ![existing].ordered_quantity =
                          AccumulateOrdered(@, item.ordered_quantity)],
                     local, nextId)
            ELSE AddItemsLoop(Tail(items), cartId,
                     (nextId :> NewCartItem(cartId, item.item_id,
                                    inventories[item.item_id].itemName,
                                    item.ordered_quantity, Undefined)) @@ docs,
                     Append(local, nextId), nextId + 1)

\* the try block of POST /add-items: the response status and what the
\* handler leaves in the database
AddItemsResult(userId, items) ==
    LET found == FindCartByUser(userId)
        cartId == IF found = Null THEN nextCartId ELSE found
        local == IF found = Null THEN <<>> ELSE carts[found].cartItems
        r == AddItemsLoop(items, cartId, cartItems, local, nextCartItemId)
    IN [status |-> r.status,
        cartId |-> cartId,
        cartItems |-> r.cartItems,
        carts |-> IF r.status = 200
                  THEN (cartId :> [userId |-> userId,
                                   cartItems |-> r.local]) @@ carts
                  ELSE carts,
        nextCartId |-> IF found = Null THEN nextCartId + 1 ELSE nextCartId,
        nextCartItemId |-> r.nextId]

\* POST /add-items
AddItems(userId, items) ==
    IF ~ValidAddItems(items)
    THEN /\ res' = Response("add-items", 400, "validation")
         /\ UNCHANGED store
    ELSE LET r == AddItemsResult(userId, items)
         IN /\ r.nextCartId <= MaxCarts + 1
            /\ r.nextCartItemId <= MaxCartItems + 1
            /\ \A k \in DOMAIN r.cartItems :
                   r.cartItems[k].ordered_quantity <= MaxQuantity
            /\ cartItems' = r.cartItems
            /\ carts' = r.carts
            /\ nextCartId' = r.nextCartId
            /\ nextCartItemId' = r.nextCartItemId
            /\ res' = Response("add-items", r.status,
                               IF r.status = 200 THEN "" ELSE "not found")
            /\ UNCHANGED <<inventories, nextInventoryId>>

\* the item_id: { $exists: false } condition of the add-custom-item lookup
ItemIdNotExists(item_id) == item_id = Missing

\* POST /add-custom-item
AddCustomItem(userId, itemName, ordered_quantity, body) ==
    IF ordered_quantity < 1
    THEN /\ res' = Response("add-custom-item", 400, "validation")
         /\ UNCHANGED store
    ELSE LET found == FindCartByUser(userId)
             cartId == IF found = Null THEN nextCartId ELSE found
             local == IF found = Null THEN <<>> ELSE carts[found].cartItems
             existing == FindOne({k \in DOMAIN cartItems :
                                     /\ cartItems[k].cart = cartId
                                     /\ cartItems[k].itemName = itemName
                                     /\ ItemIdNotExists(cartItems[k].item_id)})
         IN /\ found = Null => nextCartId <= MaxCarts
            /\ nextCartId' = IF found = Null THEN nextCartId + 1 ELSE nextCartId
            /\ IF existing # Null
               THEN /\ AccumulateOrdered(cartItems[existing].ordered_quantity,
                                         ordered_quantity) <= MaxQuantity
                    /\ cartItems' =
                         [cartItems EXCEPT
                            ![existing].ordered_quantity =
                                AccumulateOrdered(@, ordered_quantity),
                            ![existing].link =
                                IF Has(body, "link") THEN body.link ELSE @]
                    /\ carts' = (cartId :> [userId |-> userId,
                                            cartItems |-> local]) @@ carts
                    /\ UNCHANGED nextCartItemId
               ELSE /\ nextCartItemId <= MaxCartItems
                    /\ cartItems' =
                         (nextCartItemId :>
                            NewCartItem(cartId, Null, itemName, ordered_quantity,
                                IF Has(body, "link") THEN body.link
                                                     ELSE Undefined)) @@ cartItems
                    /\ carts' = (cartId :>
                                   [userId |-> userId,
                                    cartItems |-> Append(local, nextCartItemId)])
                                @@ carts
                    /\ nextCartItemId' = nextCartItemId + 1
            /\ res' = Response("add-custom-item", 200, "")
            /\ UNCHANGED <<inventories, nextInventoryId>>

\* cartDoc.cartItems.filter(id => !id.equals(cartItem._id))
FilterOut(refs, id) == SelectSeq(refs, LAMBDA r : r # id)

\* DELETE /remove-item/:cart/:itemName
RemoveItem(cart, itemName) ==
    IF cart \notin DOMAIN carts
    THEN /\ res' = Response("remove-item", 404, "not found")
         /\ UNCHANGED store
    ELSE LET cartItem == FindOne({k \in DOMAIN cartItems :
                                     /\ cartItems[k].cart = cart
                                     /\ cartItems[k].itemName = itemName})
             kept == FilterOut(carts[cart].cartItems, cartItem)
         IN IF cartItem = Null
            THEN /\ res' = Response("remove-item", 404, "not found")
                 /\ UNCHANGED store
            ELSE /\ cartItems' = [k \in DOMAIN cartItems \ {cartItem} |->
                                     cartItems[k]]
                 /\ carts' = IF Len(kept) = 0
                             THEN [c \in DOMAIN carts \ {cart} |-> carts[c]]
                             ELSE [carts EXCEPT ![cart].cartItems = kept]
                 /\ res' = Response("remove-item", 200, "")
                 /\ UNCHANGED <<inventories, nextInventoryId, nextCartId,
                                nextCartItemId>>

----------------------------------------------------------------------------
(* Status routes *)

\* an assignment in place of the +=
ReplaceAllotted(current, allotted_quantity) == allotted_quantity

\* cartItem.allotted_quantity += allotted_quantity
AccumulateAllotted(current, allotted_quantity) == current + allotted_quantity

\* the assignments both update handlers make to the fetched document
ApplyUpdate(doc, body) ==
    [doc EXCEPT
       !.allotted_quantity =
           IF Has(body, "allotted_quantity")
           THEN AccumulateAllotted(@, body.allotted_quantity) ELSE @,
       !.status = IF Has(body, "status") THEN body.status ELSE @,
       !.remarks = IF Has(body, "remarks") THEN body.remarks ELSE @]

\* cartItemSchema validation run by save()
SchemaValid(doc) ==
    /\ doc.status \in CartItemStatusEnum
    /\ doc.ordered_quantity >= 1

\* the validators of PUT /update-cart-item-status/:cartItemId
ValidUpdateStatus(body) ==
    /\ Has(body, "allotted_quantity") => body.allotted_quantity >= 0
    /\ Has(body, "status") => body.status \in StatusValidatorValues

\* PUT /update-cart-item-status/:cartItemId
UpdateCartItemStatus(cartItemId, body) ==
    IF ~ValidUpdateStatus(body)
    THEN /\ res' = Response("update-cart-item-status", 400, "validation")
         /\ UNCHANGED store
    ELSE IF cartItemId \notin DOMAIN cartItems
    THEN /\ res' = Response("update-cart-item-status", 404, "not found")
         /\ UNCHANGED store
    ELSE LET updated == ApplyUpdate(cartItems[cartItemId], body)
         IN /\ updated.allotted_quantity <= MaxQuantity
            /\ IF SchemaValid(updated)
               THEN /\ cartItems' = [cartItems EXCEPT ![cartItemId] = updated]
                    /\ res' = Response("update-cart-item-status", 200, "")
               ELSE /\ cartItems' = cartItems
                    /\ res' = Response("update-cart-item-status", 500, "internal")
            /\ UNCHANGED <<inventories, carts, nextInventoryId, nextCartId,
                           nextCartItemId>>

\* the custom validator of PUT /update-multiple-cart-items
ValidUpdateMultiple(items) ==
    \A n \in 1..Len(items) : DOMAIN items[n].body # {}

\* cartItem.save() of a fetched document: $set of the paths assigned
SaveModified(docs, id, fetched, body) ==
    LET updated == ApplyUpdate(fetched, body)
    IN [docs EXCEPT
          ![id].allotted_quantity =
              IF Has(body, "allotted_quantity") THEN updated.allotted_quantity
                                                ELSE @,
          ![id].status = IF Has(body, "status") THEN updated.status ELSE @,
          ![id].remarks = IF Has(body, "remarks") THEN updated.remarks ELSE @]

\* a sequential loop in place of the map: a rejection ends the batch
AbortAfterRejection(rest) == <<>>

\* what a rejected promise of the items.map(async ...) does to the others:
\* Promise.all rejects, the promises already started run to completion
ContinueAfterRejection(rest) == rest

RECURSIVE UpdateMultipleLoop(_, _, _, _, _)
\* items.map(async (item) => {...}) under Promise.all.  The findById calls are
\* issued together; `overlap` says whether they are all answered before the
\* first save (TRUE) or each just before its own save (FALSE).
UpdateMultipleLoop(items, overlap, snapshot, docs, ok) ==
    IF items = <<>>
    THEN [cartItems |-> docs, ok |-> ok]
    ELSE LET item == Head(items)
             source == IF overlap THEN snapshot ELSE docs
         IN IF item.id \notin DOMAIN source
            THEN UpdateMultipleLoop(ContinueAfterRejection(Tail(items)),
                                    overlap, snapshot, docs, FALSE)
            ELSE IF ~SchemaValid(ApplyUpdate(source[item.id], item.body))
            THEN UpdateMultipleLoop(ContinueAfterRejection(Tail(items)),
                                    overlap, snapshot, docs, FALSE)
            ELSE UpdateMultipleLoop(Tail(items), overlap, snapshot,
                     SaveModified(docs, item.id, source[item.id], item.body),
                     ok)

\* the try block of PUT /update-multiple-cart-items
UpdateMultipleResult(items, overlap) ==
    LET r == UpdateMultipleLoop(items, overlap, cartItems, cartItems, TRUE)
    IN [status |-> IF r.ok THEN 200 ELSE 500, cartItems |-> r.cartItems]

\* PUT /update-multiple-cart-items
UpdateMultipleCartItems(items, overlap) ==
    IF ~ValidUpdateMultiple(items)
    THEN /\ res' = Response("update-multiple-cart-items", 400, "validation")
         /\ UNCHANGED store
    ELSE LET r == UpdateMultipleResult(items, overlap)
         IN /\ \A k \in DOMAIN r.cartItems :
                   r.cartItems[k].allotted_quantity \in -MaxQuantity..MaxQuantity
            /\ cartItems' = r.cartItems
            /\ res' = Response("update-multiple-cart-items", r.status,
                               IF r.status = 200 THEN "" ELSE "internal")
            /\ UNCHANGED <<inventories, carts, nextInventoryId, nextCartId,
                           nextCartItemId>>

----------------------------------------------------------------------------
(* Summary reports *)

\* Boolean(item.item_id)
Truthy(item_id) == item_id # Null /\ item_id # Missing

\* String(item.item_id) as the key: every custom line item under "null"
GroupKeyByItemId(id, item) ==
    IF item.item_id # Null /\ item.item_id # Missing
    THEN <<"inventory", item.item_id>>
    ELSE <<"cartItem", Null>>

\* const key = item.item_id ? item.item_id.toString() : item._id.toString()
\* (ObjectIds of different collections never coincide: the key is tagged)
GroupKey(id, item) ==
    IF Truthy(item.item_id) THEN <<"inventory", item.item_id>>
                            ELSE <<"cartItem", id>>

\* assignments in place of the two +=
OverwriteGroup(group, item) ==
    [group EXCEPT
       !.totalOrderedQuantity = item.ordered_quantity,
       !.totalAllottedQuantity = item.allotted_quantity]

\* acc[key].totalOrderedQuantity += ...; acc[key].totalAllottedQuantity += ...
AddToGroup(group, item) ==
    [group EXCEPT
       !.totalOrderedQuantity = @ + item.ordered_quantity,
       !.totalAllottedQuantity = @ + item.allotted_quantity]

RECURSIVE GroupReduce(_, _, _)
\* cartItems.reduce((acc, item) => {...}, {})
GroupReduce(ids, docs, acc) ==
    IF ids = <<>> THEN acc
    ELSE LET id == Head(ids)
             item == docs[id]
             key == GroupKey(id, item)
             group == IF key \in DOMAIN acc THEN acc[key]
                      ELSE [id |-> id, totalOrderedQuantity |-> 0,
                            totalAllottedQuantity |-> 0,
                            itemName |-> item.itemName]
         IN GroupReduce(Tail(ids), docs,
                        (key :> AddToGroup(group, item)) @@ acc)

CartItemsById == GroupReduce(SetToSeq(DOMAIN cartItems), cartItems, <<>>)

\* one element of inventories.map(inventory => {...})
SummaryRow(id, groups) ==
    LET key == <<"inventory", id>>
        cartData == IF key \in DOMAIN groups THEN groups[key]
                    ELSE [totalOrderedQuantity |-> 0,
                          totalAllottedQuantity |-> 0]
    IN [id |-> id,
        itemName |-> inventories[id].itemName,
        availableQuantity |-> inventories[id].itemQuantity,
        totalOrderedQuantity |-> cartData.totalOrderedQuantity,
        totalAllottedQuantity |-> cartData.totalAllottedQuantity,
        itemOrderedStatus |-> inventories[id].itemOrderedStatus,
        itemRemark |-> IF inventories[id].itemRemark = Undefined
                       THEN "" ELSE inventories[id].itemRemark]

\* GET /cart-item-summary: the response body
CartItemSummary ==
    LET ids == SetToSeq(DOMAIN inventories)
    IN [n \in 1..Len(ids) |-> SummaryRow(ids[n], CartItemsById)]

\* CartItem.find({ item_id: null }) matches a null and a missing item_id
ItemIdIsNull(item_id) == item_id = Null \/ item_id = Missing

\* GET /cart-item-summary-custom: the response body
CartItemSummaryCustom ==
    LET ids == SetToSeq({k \in DOMAIN cartItems :
                            ItemIdIsNull(cartItems[k].item_id)})
    IN [n \in 1..Len(ids) |-> [id |-> ids[n], doc |-> cartItems[ids[n]]]]

----------------------------------------------------------------------------
(* Requests *)

\* every batch of valid items, and the one-item batches with any quantity
AddItemsInputs ==
    SeqsUpTo([item_id : InventoryIdInputs,
              ordered_quantity : {q \in OrderedQuantityInputs : q >= 1}],
             MaxBatch)
    \cup [1..1 -> [item_id : InventoryIdInputs,
                   ordered_quantity : OrderedQuantityInputs]]

UpdateStatusBodies ==
    {a @@ s @@ r : a \in OptField("allotted_quantity", AllottedQuantityInputs),
                   s \in OptField("status", {"ready"}),
                   r \in OptField("remarks", Remarks)}

UpdateMultipleBodies ==
    {<<>>,
     "allotted_quantity" :> 1,
     "status" :> "Ready",
     "status" :> "ready",
     "remarks" :> "r1"}

\* every non-empty batch of non-empty updates, and the one-item batches
\* with any update
UpdateMultipleInputs ==
    (SeqsUpTo([id : CartItemIdInputs,
               body : UpdateMultipleBodies \ {<<>>}], MaxBatch) \ {<<>>})
    \cup [1..1 -> [id : CartItemIdInputs, body : UpdateMultipleBodies]]

\* whether a batch lists one line item more than once
ListsTwice(items) ==
    \E m, n \in 1..Len(items) : m # n /\ items[m].id = items[n].id

DoCreateInventory(names) ==
    /\ \E n \in names, q \in ItemQuantityInputs, s \in ItemStatusInputs :
           CreateInventory(n, q, s)
    /\ UNCHANGED session

DoDeleteInventory ==
    /\ \E id \in InventoryIdInputs : DeleteInventory(id)
    /\ UNCHANGED session

DoAddItems(userIds) ==
    /\ \E u \in userIds, items \in AddItemsInputs : AddItems(u, items)
    /\ UNCHANGED session

DoAddCustomItem(userIds, bodies) ==
    /\ \E u \in userIds, n \in CustomNames, q \in OrderedQuantityInputs,
          body \in bodies : AddCustomItem(u, n, q, body)
    /\ UNCHANGED session

DoRemoveItem ==
    /\ \E c \in CartIdInputs, n \in ItemNames \cup CustomNames :
           RemoveItem(c, n)
    /\ UNCHANGED session

DoUpdateCartItemStatus(bodies) ==
    /\ \E id \in CartItemIdInputs, body \in bodies :
           UpdateCartItemStatus(id, body)
    /\ UNCHANGED session

DoUpdateMultipleCartItems ==
    /\ \E items \in UpdateMultipleInputs :
           \E overlap \in IF ListsTwice(items) THEN BOOLEAN ELSE {TRUE} :
               UpdateMultipleCartItems(items, overlap)
    /\ UNCHANGED session

\* the catalog and the cart routes, for every requester
NextCart ==
    \/ DoCreateInventory(ItemNames)
    \/ DoDeleteInventory
    \/ DoAddItems(UserIds)
    \/ DoAddCustomItem(UserIds, OptField("link", Links))
    \/ DoRemoveItem

SpecCart == Init /\ [][NextCart]_vars

\* the administrator's updates of one requester's line item of one catalog item
NextStatus ==
    \/ DoCreateInventory({"tape"})
    \/ DoAddItems({1})
    \/ DoUpdateCartItemStatus(UpdateStatusBodies)
    \/ DoUpdateMultipleCartItems

SpecStatus == Init /\ [][NextStatus]_vars

\* what the summary reports read: the catalog, every requester's line items
\* and the quantities allotted to them
NextSummary ==
    \/ DoCreateInventory(ItemNames)
    \/ DoDeleteInventory
    \/ DoAddItems(UserIds)
    \/ DoAddCustomItem(UserIds, {<<>>})
    \/ DoUpdateCartItemStatus(OptField("allotted_quantity", {1}))

SpecSummary == Init /\ [][NextSummary]_vars

----------------------------------------------------------------------------
(* Properties of the catalog and cart routes (SpecCart) *)

RECURSIVE SumOver(_, _, _)
\* the sum of one numeric field over the documents S of a collection
SumOver(S, docs, field) ==
    IF S = {} THEN 0
    ELSE LET k == CHOOSE x \in S : TRUE
         IN docs[k][field] + SumOver(S \ {k}, docs, field)

\* the line items of cart c that reference catalog item i
LineItemsFor(docs, c, i) ==
    {k \in DOMAIN docs : docs[k].cart = c /\ docs[k].item_id = i}

\* the custom line items of cart c named n
CustomItemsNamed(docs, c, n) ==
    {k \in DOMAIN docs : /\ docs[k].cart = c
                         /\ docs[k].itemName = n
                         /\ ~Truthy(docs[k].item_id)}

\* the carts of requester u
CartsOf(cs, u) == {c \in DOMAIN cs : cs[c].userId = u}

\* the quantity a batch adds for catalog item i
BatchQuantity(items, i) ==
    SumSeq([n \in 1..Len(items) |->
               IF items[n].item_id = i THEN items[n].ordered_quantity ELSE 0])

\* C1: no cart ever has two line items for one catalog item, and from every
\* reachable state (the requester having a cart or not) a completed add-items
\* call leaves the requester one cart whose line item for each catalog item
\* requests what it requested before plus everything the batch adds for it.
C1_AddItemsAccumulates ==
    /\ \A c \in 1..(nextCartId - 1), i \in InventoryIdInputs :
           Cardinality(LineItemsFor(cartItems, c, i)) <= 1
    /\ \A u \in UserIds, items \in AddItemsInputs :
           LET r == AddItemsResult(u, items)
               before == CartsOf(carts, u)
               after == CartsOf(r.carts, u)
           IN (ValidAddItems(items) /\ r.status = 200) =>
                 /\ Cardinality(after) = 1
                 /\ before \subseteq after
                 /\ \A c \in after, i \in InventoryIdInputs :
                        /\ Cardinality(LineItemsFor(r.cartItems, c, i)) =
                              IF \/ BatchQuantity(items, i) > 0
                                 \/ LineItemsFor(cartItems, c, i) # {}
                              THEN 1 ELSE 0
                        /\ SumOver(LineItemsFor(r.cartItems, c, i), r.cartItems,
                                   "ordered_quantity")
                             = SumOver(LineItemsFor(cartItems, c, i), cartItems,
                                       "ordered_quantity")
                               + BatchQuantity(items, i)

\* a completed add-items has merged two adds of one catalog item into the
\* only line item ever created
C1_Witness ==
    /\ res.route = "add-items" /\ res.status = 200
    /\ nextCartItemId = 2
    /\ 1 \in DOMAIN cartItems
    /\ cartItems[1].ordered_quantity = 2
    /\ cartItems[1].cart \in DOMAIN carts

\* C2: an add-custom-item for a requester whose cart holds exactly one custom
\* line item of that name leaves exactly one, requesting the sum of both adds,
\* with the new link if one is supplied and the stored link otherwise.
C2_CustomItemMerges ==
    [][res'.route = "add-custom-item" =>
         \A u \in UserIds, n \in CustomNames, q \in OrderedQuantityInputs,
            body \in OptField("link", Links) :
             \A c \in CartsOf(carts, u) :
                 (/\ AddCustomItem(u, n, q, body)
                  /\ q >= 1
                  /\ Cardinality(CustomItemsNamed(cartItems, c, n)) = 1)
                 => LET k == CHOOSE x \in CustomItemsNamed(cartItems, c, n) : TRUE
                    IN /\ CustomItemsNamed(cartItems', c, n) = {k}
                       /\ cartItems'[k].ordered_quantity =
                              cartItems[k].ordered_quantity + q
                       /\ cartItems'[k].link =
                              IF Has(body, "link") THEN body.link
                                                   ELSE cartItems[k].link]_vars

\* the line items a cart references that exist
ExistingItems(cs, docs, c) ==
    {k \in DOMAIN docs : \E n \in 1..Len(cs[c].cartItems) :
                             cs[c].cartItems[n] = k}

\* C5: a successful remove-item deletes the cart when the removed line item
\* was the cart's only existing one, and otherwise keeps the cart with every
\* other existing line item still referenced.
C5_RemoveItemDeletesEmptyCart ==
    [][res'.route = "remove-item" =>
         \A c \in DOMAIN carts, n \in ItemNames \cup CustomNames :
             (RemoveItem(c, n) /\ res'.status = 200) =>
                 LET removed == DOMAIN cartItems \ DOMAIN cartItems'
                     others == ExistingItems(carts, cartItems, c) \ removed
                 IN IF others = {}
                    THEN c \notin DOMAIN carts'
                    ELSE /\ c \in DOMAIN carts'
                         /\ others \subseteq ExistingItems(carts', cartItems', c)
      ]_vars

\* C6: a successful delete of catalog item X leaves no line item referencing
\* X and every other line item as it was.
C6_DeleteInventoryCascades ==
    [][res'.route = "delete-inventory" =>
         \A id \in InventoryIdInputs :
             (DeleteInventory(id) /\ res'.status = 200) =>
                 /\ id \notin DOMAIN inventories'
                 /\ \A k \in DOMAIN cartItems' : cartItems'[k].item_id # id
                 /\ \A k \in DOMAIN cartItems :
                        cartItems[k].item_id # id =>
                            /\ k \in DOMAIN cartItems'
                            /\ cartItems'[k] = cartItems[k]
                 /\ DOMAIN cartItems' \subseteq DOMAIN cartItems]_vars

\* a delete has removed a line item a cart still lists and kept another
C6_Witness ==
    /\ res.route = "delete-inventory" /\ res.status = 200
    /\ \E c \in DOMAIN carts :
           \E n \in 1..Len(carts[c].cartItems) :
               carts[c].cartItems[n] \notin DOMAIN cartItems
    /\ cartItems # <<>>

\* C9: creating a catalog item under a name in use answers with the
\* uniqueness error, not an internal one, and leaves the catalog as it was.
C9_CreateDuplicateConflicts ==
    [][res'.route = "create-inventory" =>
         \A n \in ItemNames, q \in ItemQuantityInputs, s \in ItemStatusInputs :
             (/\ CreateInventory(n, q, s)
              /\ ValidInventoryInput(q, s)
              /\ \E i \in DOMAIN inventories : inventories[i].itemName = n)
             => /\ res'.status = 400
                /\ res'.error = "unique"
                /\ inventories' = inventories]_vars

\* a create was refused for its name while the catalog holds that name
C9_Witness ==
    /\ res = Response("create-inventory", 400, "unique")
    /\ inventories # <<>>

----------------------------------------------------------------------------
(* Properties of the status routes (SpecStatus) *)

\* what a request adds to the allotted quantity
SuppliedDelta(body) ==
    IF Has(body, "allotted_quantity") THEN body.allotted_quantity ELSE 0

\* C3: a line item is created with allotted quantity 0, and every successful
\* single update-status call adds the supplied delta to it, or leaves it as
\* it was when no delta is supplied.
C3_AllottedAccumulates ==
    [][/\ \A k \in DOMAIN cartItems' \ DOMAIN cartItems :
              cartItems'[k].allotted_quantity = 0
       /\ res'.route = "update-cart-item-status" =>
              \A id \in DOMAIN cartItems, body \in UpdateStatusBodies :
                  (UpdateCartItemStatus(id, body) /\ res'.status = 200) =>
                      cartItems'[id].allotted_quantity =
                          cartItems[id].allotted_quantity + SuppliedDelta(body)
      ]_vars

\* a successful single update has brought a line item to the sum of two deltas
C3_Witness ==
    /\ res.route = "update-cart-item-status" /\ res.status = 200
    /\ \E k \in DOMAIN cartItems : cartItems[k].allotted_quantity = 2

\* C4: a single update-status call on an existing line item whose status the
\* request validation accepts succeeds and stores the supplied status, and a
\* supplied remark replaces the stored one.
C4_StatusReplaced ==
    [][res'.route = "update-cart-item-status" =>
         \A id \in DOMAIN cartItems, body \in UpdateStatusBodies :
             (UpdateCartItemStatus(id, body) /\ ValidUpdateStatus(body)) =>
                 /\ Has(body, "status") =>
                        /\ res'.status = 200
                        /\ cartItems'[id].status = body.status
                 /\ Has(body, "remarks") =>
                        cartItems'[id].remarks = body.remarks]_vars

\* the positions of a batch that name no line item
Nonexistent(items) ==
    {n \in 1..Len(items) : items[n].id \notin DOMAIN cartItems}

\* C10 as claimed: a strict batch that lists a nonexistent line item id fails
\* and modifies no line item listed after that id.
C10_StrictBatchAborts ==
    [][res'.route = "update-multiple-cart-items" =>
         \A items \in UpdateMultipleInputs, overlap \in BOOLEAN :
             (/\ ValidUpdateMultiple(items)
              /\ Nonexistent(items) # {}
              /\ UpdateMultipleCartItems(items, overlap))
             => /\ res'.status = 500
                /\ \A n \in Nonexistent(items), m \in 1..Len(items) :
                       (m > n /\ items[m].id \in DOMAIN cartItems) =>
                           cartItems'[items[m].id] = cartItems[items[m].id]]_vars

\* C10 as amended: from every reachable state, a strict batch that lists a
\* nonexistent line item id fails, but is not aborted: every existing line
\* item it lists once, with a status the schema accepts, has the listed
\* delta added and the listed status and remark stored.
C10_StrictBatchContinues ==
    \A items \in UpdateMultipleInputs, overlap \in BOOLEAN :
        (ValidUpdateMultiple(items) /\ Nonexistent(items) # {}) =>
            LET r == UpdateMultipleResult(items, overlap)
            IN /\ r.status = 500
               /\ DOMAIN r.cartItems = DOMAIN cartItems
               /\ \A m \in 1..Len(items) :
                      LET id == items[m].id
                          body == items[m].body
                      IN (/\ id \in DOMAIN cartItems
                          /\ \A n \in 1..Len(items) : items[n].id = id => n = m
                          /\ Has(body, "status") =>
                                 body.status \in CartItemStatusEnum)
                         => /\ r.cartItems[id].allotted_quantity =
                                   cartItems[id].allotted_quantity
                                       + SuppliedDelta(body)
                            /\ Has(body, "status") =>
                                   r.cartItems[id].status = body.status
                            /\ Has(body, "remarks") =>
                                   r.cartItems[id].remarks = body.remarks

\* a strict batch has failed and a line item carries a status that only a
\* batch can store
C10_Witness ==
    /\ res = Response("update-multiple-cart-items", 500, "internal")
    /\ \E k \in DOMAIN cartItems : cartItems[k].status = "Ready"

----------------------------------------------------------------------------
(* Properties of the summary reports (SpecSummary) *)

\* the line items, of any cart, that reference catalog item i
ReferencesTo(i) == {k \in DOMAIN cartItems : cartItems[k].item_id = i}

\* the custom line items
CustomItems == {k \in DOMAIN cartItems : ~Truthy(cartItems[k].item_id)}

\* C7: the catalog-joined summary has exactly one row per catalog item, with
\* the requested and the allotted quantities summed over every line item
\* that references the item and the catalog's quantity as the available one.
C7_SummaryJoinsCatalog ==
    LET rows == CartItemSummary
    IN /\ Len(rows) = Cardinality(DOMAIN inventories)
       /\ \A n \in 1..Len(rows) : rows[n].id \in DOMAIN inventories
       /\ \A i \in DOMAIN inventories :
              \E n \in 1..Len(rows) :
                  /\ rows[n].id = i
                  /\ \A m \in 1..Len(rows) : rows[m].id = i => m = n
                  /\ rows[n].totalOrderedQuantity =
                         SumOver(ReferencesTo(i), cartItems, "ordered_quantity")
                  /\ rows[n].totalAllottedQuantity =
                         SumOver(ReferencesTo(i), cartItems, "allotted_quantity")
                  /\ rows[n].availableQuantity = inventories[i].itemQuantity

\* two carts request one catalog item, 1 and 2 of it, with 1 and 2 allotted,
\* beside a catalog item nobody requests
C7_Witness ==
    /\ Cardinality(DOMAIN inventories) = 2
    /\ \E i \in DOMAIN inventories :
           /\ \E j, k \in ReferencesTo(i) :
                  /\ cartItems[j].cart # cartItems[k].cart
                  /\ cartItems[j].ordered_quantity = 1
                  /\ cartItems[k].ordered_quantity = 2
                  /\ cartItems[j].allotted_quantity = 1
                  /\ cartItems[k].allotted_quantity = 2
           /\ \E n \in 1..Len(CartItemSummary) :
                  /\ CartItemSummary[n].id = i
                  /\ CartItemSummary[n].totalOrderedQuantity = 3
                  /\ CartItemSummary[n].totalAllottedQuantity = 3

\* C8: every custom line item is a group of its own in the summary grouping,
\* keyed by its own id and holding only its own quantities, and the
\* custom-only report lists exactly the custom line items, one entry each,
\* as stored.
C8_CustomItemsUngrouped ==
    /\ \A k \in CustomItems :
           /\ <<"cartItem", k>> \in DOMAIN CartItemsById
           /\ CartItemsById[<<"cartItem", k>>].totalOrderedQuantity =
                  cartItems[k].ordered_quantity
           /\ CartItemsById[<<"cartItem", k>>].totalAllottedQuantity =
                  cartItems[k].allotted_quantity
    /\ LET report == CartItemSummaryCustom
       IN /\ Len(report) = Cardinality(CustomItems)
          /\ \A k \in CustomItems :
                 \E n \in 1..Len(report) :
                     report[n].id = k /\ report[n].doc = cartItems[k]

\* two carts each hold a custom line item of one name, with different
\* allotted quantities
C8_Witness ==
    \E j, k \in CustomItems :
        /\ cartItems[j].cart # cartItems[k].cart
        /\ cartItems[j].itemName = cartItems[k].itemName
        /\ cartItems[j].allotted_quantity = 1
        /\ cartItems[k].allotted_quantity = 2

----------------------------------------------------------------------------
(* Catalog update and cart deletion *)

\* what PUT /inventory/:id may set the quantity to
UpdateQuantityInputs == {-1, 1, 2}

\* and the status to
UpdateItemStatusInputs == ItemStatusEnum \cup {"archived"}

\* an update that never meets the unique index
NoDuplicateKeyOnUpdate(invs, id, itemName) == FALSE

\* the unique index on Inventory.itemName rejects an update (E11000): another
\* document already holds the name
DuplicateKeyOnUpdate(invs, id, itemName) ==
    \E j \in DOMAIN invs \ {id} : invs[j].itemName = itemName

\* PUT /inventory/:id
UpdateInventory(id, itemName, itemQuantity, itemStatus) ==
    /\ res' =
         IF ~ValidInventoryInput(itemQuantity, itemStatus)
         THEN Response("update-inventory", 400, "validation")
         ELSE IF id \notin DOMAIN inventories
         THEN Response("update-inventory", 404, "not found")
         ELSE IF DuplicateKeyOnUpdate(inventories, id, itemName)
         THEN Response("update-inventory", 400, "unique")
         ELSE Response("update-inventory", 200, "")
    /\ inventories' =
         IF res'.status = 200
         THEN [inventories EXCEPT ![id].itemName = itemName,
                                  ![id].itemQuantity = itemQuantity,
                                  ![id].itemStatus = itemStatus]
         ELSE inventories
    /\ UNCHANGED <<carts, cartItems, nextInventoryId, nextCartId,
                   nextCartItemId>>

\* Cart.findByIdAndDelete(cart_id)
FindCartByIdAndDelete(cs, cart_id) ==
    [c \in DOMAIN cs \ {cart_id} |-> cs[c]]

\* CartItem.deleteMany({ cart: cart_id })
DeleteManyByCart(items, cart_id) ==
    [k \in {j \in DOMAIN items : items[j].cart # cart_id} |-> items[k]]

\* DELETE /remove-cart/:cart_id: the two deletions are issued together and
\* both run, whatever the other finds
RemoveCart(cart_id) ==
    /\ carts' = FindCartByIdAndDelete(carts, cart_id)
    /\ cartItems' = DeleteManyByCart(cartItems, cart_id)
    /\ res' = IF cart_id \in DOMAIN carts
              THEN Response("remove-cart", 200, "")
              ELSE Response("remove-cart", 404, "not found")
    /\ UNCHANGED <<inventories, nextInventoryId, nextCartId, nextCartItemId>>

DoUpdateInventoryWith(names, quantities, statuses) ==
    /\ \E id \in InventoryIdInputs, n \in names, q \in quantities,
          s \in statuses : UpdateInventory(id, n, q, s)
    /\ UNCHANGED session

DoUpdateInventory ==
    DoUpdateInventoryWith(ItemNames, UpdateQuantityInputs,
                          UpdateItemStatusInputs)

DoRemoveCart ==
    /\ \E c \in CartIdInputs : RemoveCart(c)
    /\ UNCHANGED session

\* the catalog routes
NextCatalog ==
    \/ DoCreateInventory(ItemNames)
    \/ DoUpdateInventory
    \/ DoDeleteInventory

SpecCatalog == Init /\ [][NextCatalog]_vars

\* requesters filling their carts and the administrator deleting carts
NextRemoveCart ==
    \/ DoCreateInventory({"tape"})
    \/ DoAddItems(UserIds)
    \/ DoAddCustomItem(UserIds, {<<>>})
    \/ DoRemoveCart

SpecRemoveCart == Init /\ [][NextRemoveCart]_vars

----------------------------------------------------------------------------
(* The catalog-filtered batch of status updates *)

\* the validators of PUT /update-items-status
ValidUpdateItems(items) ==
    \A n \in 1..Len(items) :
        Has(items[n].body, "status") =>
            items[n].body.status \in StatusValidatorValues

\* inventories.map(inv => inv._id.toString())
InventoryIds(invs) == DOMAIN invs

RECURSIVE UpdateItemsLoop(_, _, _)

\* a `continue` in place of the return: the id is skipped
SkipNotFound(rest, inventoryIds, docs) ==
    UpdateItemsLoop(rest, inventoryIds, docs)

\* return res.status(404).json(...) inside the loop: the handler ends there
ReturnNotFound(rest, inventoryIds, docs) ==
    [status |-> 404, cartItems |-> docs]

\* for (const item of items) {...} and the response after it
UpdateItemsLoop(items, inventoryIds, docs) ==
    IF items = <<>>
    THEN [status |-> 200, cartItems |-> docs]
    ELSE LET item == Head(items)
         IN IF item.id \notin DOMAIN docs
            THEN ReturnNotFound(Tail(items), inventoryIds, docs)
            ELSE IF ~Truthy(docs[item.id].item_id)
            THEN \* cartItem.item_id.toString() throws a TypeError
                 [status |-> 500, cartItems |-> docs]
            ELSE IF docs[item.id].item_id \notin inventoryIds
            THEN UpdateItemsLoop(Tail(items), inventoryIds, docs)
            ELSE IF ~SchemaValid(ApplyUpdate(docs[item.id], item.body))
            THEN \* cartItem.save() rejects
                 [status |-> 500, cartItems |-> docs]
            ELSE UpdateItemsLoop(Tail(items), inventoryIds,
                     SaveModified(docs, item.id, docs[item.id], item.body))

\* the try block of PUT /update-items-status
UpdateItemsResult(items) ==
    UpdateItemsLoop(items, InventoryIds(inventories), cartItems)

\* PUT /update-items-status
UpdateItemsStatus(items) ==
    IF ~ValidUpdateItems(items)
    THEN /\ res' = Response("update-items-status", 400, "validation")
         /\ UNCHANGED store
    ELSE LET r == UpdateItemsResult(items)
         IN /\ cartItems' = r.cartItems
            /\ res' = Response("update-items-status", r.status,
                               CASE r.status = 200 -> ""
                                 [] r.status = 404 -> "not found"
                                 [] OTHER -> "internal")
            /\ UNCHANGED <<inventories, carts, nextInventoryId, nextCartId,
                           nextCartItemId>>

UpdateItemsBodies ==
    {<<>>, "status" :> "ready", "status" :> "Ready", "remarks" :> "r1"}

UpdateItemsInputs ==
    SeqsUpTo([id : CartItemIdInputs, body : UpdateItemsBodies], MaxBatch)

DoUpdateItemsStatusWith(inputs) ==
    /\ \E items \in inputs : UpdateItemsStatus(items)
    /\ UNCHANGED session

DoUpdateItemsStatus == DoUpdateItemsStatusWith(UpdateItemsInputs)

\* one requester's catalog and custom line items and the administrator's
\* catalog-filtered batches
NextUpdateItems ==
    \/ DoCreateInventory({"tape"})
    \/ DoDeleteInventory
    \/ DoAddItems({1})
    \/ DoAddCustomItem({1}, {<<>>})
    \/ DoUpdateItemsStatus

SpecUpdateItems == Init /\ [][NextUpdateItems]_vars

----------------------------------------------------------------------------
(* Properties of the catalog-filtered batch (SpecUpdateItems) *)

\* whether a line item's catalog reference resolves to a catalog item
Resolves(doc) == doc.item_id \in DOMAIN inventories

\* whether position m is the only one of the batch that lists its id
ListedOnce(items, m) ==
    \A n \in 1..Len(items) : items[n].id = items[m].id => n = m

\* C11: in a catalog-filtered batch whose ids all exist, a listed line item
\* whose catalog reference does not resolve is left unchanged, every other
\* listed line item has its status and remark stored, and the request
\* reports success.
C11_FilteredBatchSkipsUnresolved ==
    [][res'.route = "update-items-status" =>
         \A items \in UpdateItemsInputs :
             (/\ ValidUpdateItems(items)
              /\ \A n \in 1..Len(items) : items[n].id \in DOMAIN cartItems
              /\ UpdateItemsStatus(items))
             => /\ res'.status = 200
                /\ \A m \in 1..Len(items) :
                       LET id == items[m].id
                           body == items[m].body
                       IN IF ~Resolves(cartItems[id])
                          THEN cartItems'[id] = cartItems[id]
                          ELSE ListedOnce(items, m) =>
                                 /\ Has(body, "status") =>
                                        cartItems'[id].status = body.status
                                 /\ Has(body, "remarks") =>
                                        cartItems'[id].remarks = body.remarks
      ]_vars

\* the first position of a batch that names no line item, 0 when all do
FirstNonexistent(items) ==
    IF \A n \in 1..Len(items) : items[n].id \in DOMAIN cartItems THEN 0
    ELSE Min({n \in 1..Len(items) : items[n].id \notin DOMAIN cartItems})

\* C12 as claimed: a nonexistent line item id in a catalog-filtered batch is
\* skipped, and the line items listed after it that exist and resolve are
\* still updated.
C12_FilteredBatchSkipsNotFound ==
    [][res'.route = "update-items-status" =>
         \A items \in UpdateItemsInputs :
             (/\ ValidUpdateItems(items)
              /\ FirstNonexistent(items) # 0
              /\ UpdateItemsStatus(items))
             => \A m \in 1..Len(items) :
                    LET id == items[m].id
                        body == items[m].body
                    IN (/\ m > FirstNonexistent(items)
                        /\ id \in DOMAIN cartItems
                        /\ Resolves(cartItems[id])
                        /\ ListedOnce(items, m))
                       => /\ Has(body, "status") =>
                                 cartItems'[id].status = body.status
                          /\ Has(body, "remarks") =>
                                 cartItems'[id].remarks = body.remarks
      ]_vars

\* C12 as amended: from every reachable state, a catalog-filtered batch
\* that lists a nonexistent line item id is aborted there: the request
\* fails, with NotFound unless an earlier item has failed it, and no line
\* item that is not listed before that id is modified.
C12_FilteredBatchAbortsAtNotFound ==
    \A items \in UpdateItemsInputs :
        (ValidUpdateItems(items) /\ FirstNonexistent(items) # 0) =>
            LET r == UpdateItemsResult(items)
                n == FirstNonexistent(items)
            IN /\ r.status \in {404, 500}
               /\ r.status = 500 => n > 1
               /\ DOMAIN r.cartItems = DOMAIN cartItems
               /\ \A k \in DOMAIN cartItems :
                      (\A m \in 1..(n - 1) : items[m].id # k) =>
                          r.cartItems[k] = cartItems[k]

\* a batch has been aborted at a nonexistent id after it stored a remark,
\* while another catalog line item has none
C12_Witness ==
    /\ res = Response("update-items-status", 404, "not found")
    /\ \E j, k \in DOMAIN cartItems :
           /\ Resolves(cartItems[j]) /\ Resolves(cartItems[k])
           /\ cartItems[j].remarks = "r1"
           /\ cartItems[k].remarks = Undefined

----------------------------------------------------------------------------
(* Requests with malformed input *)

\* bodies of a status update with a negative delta or an unknown status
MalformedUpdateBodies == {"allotted_quantity" :> -1, "status" :> "bogus"}

\* single updates: a delta or a malformed body
ValidationStatusBodies ==
    {"allotted_quantity" :> 1} \cup MalformedUpdateBodies

\* strict batches: the same bodies, one or two to a batch
ValidationBatchInputs ==
    SeqsUpTo([id : CartItemIdInputs, body : ValidationStatusBodies],
             MaxBatch) \ {<<>>}

\* catalog-filtered batches: empty updates and unknown statuses
ValidationItemsInputs ==
    SeqsUpTo([id : CartItemIdInputs, body : {<<>>, "status" :> "bogus"}],
             MaxBatch) \ {<<>>}

DoUpdateMultipleCartItemsWith(inputs) ==
    /\ \E items \in inputs : UpdateMultipleCartItems(items, TRUE)
    /\ UNCHANGED session

\* every route that validates its input, for one requester
NextValidation ==
    \/ DoCreateInventory({"tape"})
    \/ DoUpdateInventoryWith({"tape"}, {2}, ItemStatusInputs)
    \/ DoAddItems({1})
    \/ DoAddCustomItem({1}, {<<>>})
    \/ DoUpdateCartItemStatus(ValidationStatusBodies)
    \/ DoUpdateMultipleCartItemsWith(ValidationBatchInputs)
    \/ DoUpdateItemsStatusWith(ValidationItemsInputs)

SpecValidation == Init /\ [][NextValidation]_vars

----------------------------------------------------------------------------
(* Properties of input validation (SpecValidation) *)

\* a status update body with a negative delta or a status that neither the
\* validators nor the schema know
MalformedUpdate(body) ==
    \/ Has(body, "allotted_quantity") /\ body.allotted_quantity < 0
    \/ Has(body, "status")
           /\ body.status \notin StatusValidatorValues \cup CartItemStatusEnum

\* the request was refused and no store was touched
Rejected == res'.status \notin {200, 201} /\ UNCHANGED store

\* C18: a request with a non-positive requested quantity, a negative
\* allotted delta or a status outside the allowed enum is rejected by every
\* operation without any mutation of the stores, the other items of the
\* same batch included.
C18_MalformedInputRejected ==
    [][/\ res'.route = "add-items" =>
              \A items \in AddItemsInputs :
                  (AddItems(1, items)
                     /\ \E n \in 1..Len(items) : items[n].ordered_quantity < 1)
                  => Rejected
       /\ res'.route = "add-custom-item" =>
              \A n \in CustomNames, q \in OrderedQuantityInputs :
                  (AddCustomItem(1, n, q, <<>>) /\ q < 1) => Rejected
       /\ res'.route = "update-cart-item-status" =>
              \A id \in CartItemIdInputs, body \in ValidationStatusBodies :
                  (UpdateCartItemStatus(id, body) /\ MalformedUpdate(body))
                  => Rejected
       /\ res'.route = "update-multiple-cart-items" =>
              \A items \in ValidationBatchInputs :
                  (UpdateMultipleCartItems(items, TRUE)
                     /\ \E n \in 1..Len(items) : MalformedUpdate(items[n].body))
                  => Rejected
       /\ res'.route = "update-items-status" =>
              \A items \in ValidationItemsInputs :
                  (UpdateItemsStatus(items)
                     /\ \E n \in 1..Len(items) : MalformedUpdate(items[n].body))
                  => Rejected
       /\ res'.route = "create-inventory" =>
              \A q \in ItemQuantityInputs, s \in ItemStatusInputs :
                  (CreateInventory("tape", q, s) /\ s \notin ItemStatusEnum)
                  => Rejected
       /\ res'.route = "update-inventory" =>
              \A id \in InventoryIdInputs, s \in ItemStatusInputs :
                  (UpdateInventory(id, "tape", 2, s) /\ s \notin ItemStatusEnum)
                  => Rejected
      ]_vars

----------------------------------------------------------------------------
(* Accounts and the access gate *)

MaxUsers == 2

\* the enum of userSchema.access
Roles == {"user", "bosslevel"}

\* req.body.access of POST /register
AccessInputs == {Undefined, "user", "bosslevel", "root"}

\* POST /register with a verification code that matches and a club name
\* that is free: the account gets the access level it asks for
Register(access) ==
    LET stored == IF access = Undefined THEN "user" ELSE access
        id == Cardinality(DOMAIN users) + 1
    IN /\ id <= MaxUsers
       /\ IF stored \in Roles
          THEN /\ users' = (id :> [access |-> stored]) @@ users
               /\ res' = Response("register", 201, "")
          ELSE \* newUser.save() rejects the enum
               /\ users' = users
               /\ res' = Response("register", 500, "internal")
       /\ UNCHANGED <<store, requests>>

\* the Authorization header: none, a token that does not verify, one that
\* has expired, or a token signed for a user id
Tokens ==
    [kind : {"none", "invalid", "expired"}, id : {Null}]
        \cup [kind : {"valid"}, id : 1..(MaxUsers + 1)]

\* a ranking of the roles in place of the comparison: bosslevel passes
\* wherever user does
AccessBelow(access, requiredAccess) ==
    access = "user" /\ requiredAccess = "bosslevel"

\* user.access !== requiredAccess
AccessDenied(access, requiredAccess) == access # requiredAccess

\* authMiddleware(requiredAccess): the response it sends, or status 0 when
\* it calls next()
AuthMiddleware(token, requiredAccess) ==
    IF token.kind = "none"
    THEN [status |-> 401, error |-> "no token"]
    ELSE IF token.kind \in {"invalid", "expired"}
    THEN [status |-> 401, error |-> "invalid token"]
    ELSE IF token.id \notin DOMAIN users
    THEN [status |-> 404, error |-> "user not found"]
    ELSE IF AccessDenied(users[token.id].access, requiredAccess)
    THEN [status |-> 403, error |-> "access denied"]
    ELSE [status |-> 0, error |-> ""]

\* the error bodies only the gate sends
GateErrors == {"no token", "invalid token", "user not found", "access denied"}

\* remove-cart opened to the user role
WrongRequiredAccess ==
    [route \in {"list-inventory-user", "add-items", "add-custom-item",
                "cart-items-final", "remove-cart"} |-> "user"]
    @@ [route \in {"create-inventory", "list-inventory", "delete-inventory",
                   "update-inventory", "update-inventory-items",
                   "remove-item", "cart-items-user", "get-club-list",
                   "update-cart-item-status", "update-multiple-cart-items",
                   "cart-item-summary", "cart-item-summary-custom",
                   "update-items-status"} |-> "bosslevel"]

\* the authMiddleware(...) argument of every route
RequiredAccess ==
    [route \in {"list-inventory-user", "add-items", "add-custom-item",
                "cart-items-final"} |-> "user"]
    @@ [route \in {"create-inventory", "list-inventory", "delete-inventory",
                   "update-inventory", "update-inventory-items",
                   "remove-item", "cart-items-user", "get-club-list",
                   "update-cart-item-status", "update-multiple-cart-items",
                   "cart-item-summary", "cart-item-summary-custom",
                   "update-items-status", "remove-cart"} |-> "bosslevel"]

Routes == DOMAIN RequiredAccess

\* Cart.findOne({ userId }).populate('cartItems', ...): the line items the
\* cart references that still exist
PopulatedCartItems(userId) ==
    LET found == FindCartByUser(userId)
    IN IF found = Null THEN <<>>
       ELSE SelectSeq(carts[found].cartItems,
                      LAMBDA k : k \in DOMAIN cartItems)

\* GET /cart-items-final/:userId and GET /cart-items-user/:userId
CartItemsOf(route, userId) ==
    /\ res' = IF Len(PopulatedCartItems(userId)) = 0
              THEN Response(route, 404, "not found")
              ELSE Response(route, 200, "")
    /\ UNCHANGED store

\* GET /get-club-list: populate leaves userId null where no user has the id,
\* and cart.userId.clubName then throws
GetClubList ==
    /\ res' = IF \A c \in DOMAIN carts : carts[c].userId \in DOMAIN users
              THEN Response("get-club-list", 200, "")
              ELSE Response("get-club-list", 500, "internal")
    /\ UNCHANGED store

\* the routes that only read and always answer 200: GET /inventory,
\* GET /inventory/user, GET /cart-item-summary, GET /cart-item-summary-custom
ReadAll(route) ==
    /\ res' = Response(route, 200, "")
    /\ UNCHANGED store

\* PUT /update-inventory-items with one item that sets a remark
UpdateInventoryItems(id, itemRemark) ==
    /\ IF id \in DOMAIN inventories
       THEN /\ inventories' = [inventories EXCEPT ![id].itemRemark = itemRemark]
            /\ res' = Response("update-inventory-items", 200, "")
       ELSE /\ inventories' = inventories
            /\ res' = Response("update-inventory-items", 500, "internal")
    /\ UNCHANGED <<carts, cartItems, nextInventoryId, nextCartId,
                   nextCartItemId>>

\* the batches of one catalog item that a gated add-items request carries
GatedAddItemsInputs == [1..1 -> [item_id : {1}, ordered_quantity : {1}]]

\* the handler behind the gate of each route, on the first catalog item,
\* cart and line item
Handler(route) ==
    CASE route = "create-inventory" -> CreateInventory("tape", 2, "enabled")
      [] route = "delete-inventory" -> DeleteInventory(1)
      [] route = "update-inventory" -> UpdateInventory(1, "tape", 1, "enabled")
      [] route = "update-inventory-items" -> UpdateInventoryItems(1, "r1")
      [] route = "add-items" ->
             \E u \in UserIds, items \in GatedAddItemsInputs : AddItems(u, items)
      [] route = "add-custom-item" ->
             \E u \in UserIds : AddCustomItem(u, "rope", 1, <<>>)
      [] route = "cart-items-final" ->
             \E u \in UserIds : CartItemsOf(route, u)
      [] route = "cart-items-user" ->
             \E u \in UserIds : CartItemsOf(route, u)
      [] route = "get-club-list" -> GetClubList
      [] route = "remove-item" -> RemoveItem(1, "tape")
      [] route = "update-cart-item-status" ->
             UpdateCartItemStatus(1, "remarks" :> "r1")
      [] route = "update-multiple-cart-items" ->
             UpdateMultipleCartItems(<<[id |-> 1, body |-> "remarks" :> "r1"]>>,
                                     TRUE)
      [] route = "update-items-status" ->
             UpdateItemsStatus(<<[id |-> 1, body |-> "remarks" :> "r1"]>>)
      [] route = "remove-cart" -> RemoveCart(1)
      [] OTHER -> ReadAll(route)

\* a request to a route: the gate, then the handler if the gate calls next()
Request(token, route) ==
    LET gate == AuthMiddleware(token, RequiredAccess[route])
    IN /\ IF gate.status = 0
          THEN Handler(route)
          ELSE /\ res' = Response(route, gate.status, gate.error)
               /\ UNCHANGED store
       /\ UNCHANGED session

DoRegister == \E access \in AccessInputs : Register(access)

DoRequest(route) == \E token \in Tokens : Request(token, route)

\* accounts of both roles sending requests to every route
NextAccess ==
    \/ DoRegister
    \/ DoRequest("create-inventory")
    \/ DoRequest("list-inventory")
    \/ DoRequest("list-inventory-user")
    \/ DoRequest("delete-inventory")
    \/ DoRequest("update-inventory")
    \/ DoRequest("update-inventory-items")
    \/ DoRequest("add-items")
    \/ DoRequest("add-custom-item")
    \/ DoRequest("cart-items-final")
    \/ DoRequest("remove-item")
    \/ DoRequest("cart-items-user")
    \/ DoRequest("get-club-list")
    \/ DoRequest("update-cart-item-status")
    \/ DoRequest("update-multiple-cart-items")
    \/ DoRequest("cart-item-summary")
    \/ DoRequest("cart-item-summary-custom")
    \/ DoRequest("update-items-status")
    \/ DoRequest("remove-cart")

SpecAccess == Init /\ [][NextAccess]_vars

----------------------------------------------------------------------------
(* Add requests served at the same time *)

\* the largest requested quantity of a line item that requests race on
MaxRaceQuantity == 3

\* an add request between two of its awaits: the route, the requester, the
\* items not yet processed, the cart document in memory (its _id, whether it
\* was constructed by this request, the line item ids pushed to it), the
\* line item found for the latest item with the requested quantity read
\* from it, and the response once decided
Running(route, userId, todo, cartId, isNew) ==
    [pc |-> IF todo = <<>> THEN "save" ELSE "item",
     route |-> route, userId |-> userId, todo |-> todo,
     cartId |-> cartId, isNew |-> isNew, pushed |-> <<>>,
     existing |-> Null, fetched |-> 0, status |-> 0]

\* the line item an add request's findOne returns
FindExisting(r, item) ==
    FindOne({k \in DOMAIN cartItems :
               /\ cartItems[k].cart = r.cartId
               /\ IF r.route = "add-items"
                  THEN cartItems[k].item_id = item.item_id
                  ELSE /\ cartItems[k].itemName = item.itemName
                       /\ ItemIdNotExists(cartItems[k].item_id)})

\* a Cart collection without the unique index on userId
NoDuplicateUserKey(cs, userId) == FALSE

\* the unique index on Cart.userId rejects an insert (E11000)
DuplicateUserKey(cs, userId) ==
    \E c \in DOMAIN cs : cs[c].userId = userId

\* let cart = await Cart.findOne({ userId }); if (!cart) cart = new Cart(...)
Begin(p, route, userId, todo) ==
    LET found == FindCartByUser(userId)
    IN /\ requests[p].pc = "idle"
       /\ found = Null => nextCartId <= MaxCarts
       /\ requests' =
            [requests EXCEPT
               ![p] = Running(route, userId, todo,
                              IF found = Null THEN nextCartId ELSE found,
                              found = Null)]
       /\ nextCartId' = IF found = Null THEN nextCartId + 1 ELSE nextCartId
       /\ UNCHANGED <<inventories, carts, cartItems, nextInventoryId,
                      nextCartItemId, res, users>>

\* await Inventory.findById(item.item_id) and await CartItem.findOne({...})
\* of add-items; await CartItem.findOne({...}) of add-custom-item
Lookup(p) ==
    LET r == requests[p]
        item == Head(r.todo)
    IN /\ r.pc = "item"
       /\ requests' =
            IF r.route = "add-items" /\ item.item_id \notin DOMAIN inventories
            THEN [requests EXCEPT ![p].pc = "done", ![p].status = 404]
            ELSE LET existing == FindExisting(r, item)
                 IN [requests EXCEPT
                       ![p].pc = "write",
                       ![p].existing = existing,
                       ![p].fetched =
                           IF existing = Null THEN 0
                           ELSE cartItems[existing].ordered_quantity]
       /\ UNCHANGED <<store, res, users>>

\* existingCartItem.ordered_quantity += ...; await existingCartItem.save():
\* the save sets the stored quantity to the one computed from the document
\* that was read
SaveQuantity(docs, id, fetched, ordered_quantity) ==
    [docs EXCEPT ![id].ordered_quantity =
                     AccumulateOrdered(fetched, ordered_quantity)]

\* existingCartItem.ordered_quantity += ...; await existingCartItem.save()
\* or await newCartItem.save(); cart.cartItems.push(newCartItem._id)
Write(p) ==
    LET r == requests[p]
        item == Head(r.todo)
        rest == Tail(r.todo)
    IN /\ r.pc = "write"
       /\ IF r.existing # Null /\ r.existing \notin DOMAIN cartItems
          THEN \* the update matches no document: save() rejects
               /\ requests' = [requests EXCEPT ![p].pc = "done",
                                               ![p].status = 500]
               /\ UNCHANGED <<cartItems, nextCartItemId>>
          ELSE IF r.existing # Null
          THEN /\ AccumulateOrdered(r.fetched, item.ordered_quantity)
                      <= MaxRaceQuantity
               /\ cartItems' = SaveQuantity(cartItems, r.existing, r.fetched,
                                            item.ordered_quantity)
               /\ UNCHANGED nextCartItemId
               /\ requests' =
                    [requests EXCEPT
                       ![p].pc = IF rest = <<>> THEN "save" ELSE "item",
                       ![p].todo = rest]
          ELSE /\ nextCartItemId <= MaxCartItems
               /\ cartItems' =
                    (nextCartItemId :>
                       NewCartItem(r.cartId,
                                   IF r.route = "add-items" THEN item.item_id
                                                            ELSE Null,
                                   IF r.route = "add-items"
                                   THEN inventories[item.item_id].itemName
                                   ELSE item.itemName,
                                   item.ordered_quantity, Undefined))
                    @@ cartItems
               /\ nextCartItemId' = nextCartItemId + 1
               /\ requests' =
                    [requests EXCEPT
                       ![p].pc = IF rest = <<>> THEN "save" ELSE "item",
                       ![p].todo = rest,
                       ![p].pushed = Append(@, nextCartItemId)]
       /\ UNCHANGED <<inventories, carts, nextInventoryId, nextCartId, res,
                      users>>

\* await cart.save(): an insert of the cart this request constructed, a
\* $push of the new line item ids to the cart it found; the catch block
\* answers a rejected insert with 500
SaveCart(p) ==
    LET r == requests[p]
    IN /\ r.pc = "save"
       /\ IF r.isNew
          THEN IF DuplicateUserKey(carts, r.userId)
               THEN /\ carts' = carts
                    /\ requests' = [requests EXCEPT ![p].pc = "done",
                                                    ![p].status = 500]
               ELSE /\ carts' = (r.cartId :> [userId |-> r.userId,
                                              cartItems |-> r.pushed]) @@ carts
                    /\ requests' = [requests EXCEPT ![p].pc = "done",
                                                    ![p].status = 200]
          ELSE IF r.pushed # <<>> /\ r.cartId \notin DOMAIN carts
          THEN \* the $push matches no document: save() rejects
               /\ carts' = carts
               /\ requests' = [requests EXCEPT ![p].pc = "done",
                                               ![p].status = 500]
          ELSE /\ carts' = IF r.pushed = <<>> THEN carts
                           ELSE [carts EXCEPT
                                   ![r.cartId].cartItems = @ \o r.pushed]
               /\ requests' = [requests EXCEPT ![p].pc = "done",
                                               ![p].status = 200]
       /\ UNCHANGED <<inventories, cartItems, nextInventoryId, nextCartId,
                      nextCartItemId, res, users>>

\* res.status(...).json(...): the request is over
Respond(p) ==
    LET r == requests[p]
    IN /\ r.pc = "done"
       /\ res' = Response(r.route, r.status,
                          CASE r.status = 200 -> ""
                            [] r.status = 404 -> "not found"
                            [] OTHER -> "internal")
       /\ requests' = [requests EXCEPT ![p] = Idle]
       /\ UNCHANGED <<store, users>>

\* the item lists of the add requests that race: one catalog item, or one
\* custom item
RaceAddItemsInputs == [1..1 -> [item_id : {1}, ordered_quantity : {1}]]

RaceCustomInputs == [1..1 -> [itemName : CustomNames, ordered_quantity : {1}]]

DoBeginAddItemsFor(userIds) ==
    \E p \in Processes, u \in userIds, items \in RaceAddItemsInputs :
        Begin(p, "add-items", u, items)

DoBeginAddCustomItemFor(userIds) ==
    \E p \in Processes, u \in userIds, items \in RaceCustomInputs :
        Begin(p, "add-custom-item", u, items)

DoBeginAddItems == DoBeginAddItemsFor(UserIds)

DoBeginAddCustomItem == DoBeginAddCustomItemFor(UserIds)

DoLookup == \E p \in Processes : Lookup(p)

DoWrite == \E p \in Processes : Write(p)

DoSaveCart == \E p \in Processes : SaveCart(p)

DoRespond == \E p \in Processes : Respond(p)

\* two add requests at a time, interleaved at their awaits
NextRace ==
    \/ DoCreateInventory({"tape"})
    \/ DoBeginAddItems
    \/ DoBeginAddCustomItem
    \/ DoLookup
    \/ DoWrite
    \/ DoSaveCart
    \/ DoRespond

SpecRace == Init /\ [][NextRace]_vars

----------------------------------------------------------------------------
(* A remove-item served at the same time as add requests *)

\* a remove-item request between two of its awaits: the cart document in
\* memory (its _id and the array read from the store), the name looked for,
\* the line item found and the response once decided
Removing(cart, itemName, read) ==
    [pc |-> "find", route |-> "remove-item", cartId |-> cart,
     itemName |-> itemName, read |-> read, existing |-> Null, status |-> 0]

\* let cartDoc = await Cart.findOne({ _id: cart })
BeginRemove(p, cart, itemName) ==
    /\ requests[p].pc = "idle"
    /\ requests' =
         [requests EXCEPT
            ![p] = IF cart \in DOMAIN carts
                   THEN Removing(cart, itemName, carts[cart].cartItems)
                   ELSE [Removing(cart, itemName, <<>>) EXCEPT
                           !.pc = "done", !.status = 404]]
    /\ UNCHANGED <<store, res, users>>

\* const cartItem = await CartItem.findOne({ cart: cartDoc._id, itemName })
FindToRemove(p) ==
    LET r == requests[p]
        cartItem == FindOne({k \in DOMAIN cartItems :
                               /\ cartItems[k].cart = r.cartId
                               /\ cartItems[k].itemName = r.itemName})
    IN /\ r.pc = "find"
       /\ requests' =
            IF cartItem = Null
            THEN [requests EXCEPT ![p].pc = "done", ![p].status = 404]
            ELSE [requests EXCEPT ![p].pc = "delete", ![p].existing = cartItem]
       /\ UNCHANGED <<store, res, users>>

\* await CartItem.deleteOne({ _id: cartItem._id })
DeleteFound(p) ==
    LET r == requests[p]
    IN /\ r.pc = "delete"
       /\ cartItems' = [k \in DOMAIN cartItems \ {r.existing} |-> cartItems[k]]
       /\ requests' = [requests EXCEPT ![p].pc = "decide"]
       /\ UNCHANGED <<inventories, carts, nextInventoryId, nextCartId,
                      nextCartItemId, res, users>>

\* whether cartDoc.save() is rejected.  Assigning the filtered array makes
\* the save a $set of the whole array, which carries the version key the
\* cart had when it was read; every $push and every $set of the array
\* increments that key, and line item ids are never reused, so the stored
\* version differs from the one read exactly when the stored array does.
VersionError(cs, cart, read) ==
    cart \notin DOMAIN cs \/ cs[cart].cartItems # read

\* cartDoc.cartItems = cartDoc.cartItems.filter(...), then either
\* await Cart.deleteOne({ _id: cartDoc._id }) or await cartDoc.save()
DecideCart(p) ==
    LET r == requests[p]
        kept == FilterOut(r.read, r.existing)
    IN /\ r.pc = "decide"
       /\ IF Len(kept) = 0
          THEN /\ carts' = [c \in DOMAIN carts \ {r.cartId} |-> carts[c]]
               /\ requests' = [requests EXCEPT ![p].pc = "done",
                                               ![p].status = 200]
          ELSE IF kept = r.read
          THEN \* nothing was filtered out: save() has nothing to write
               /\ carts' = carts
               /\ requests' = [requests EXCEPT ![p].pc = "done",
                                               ![p].status = 200]
          ELSE IF VersionError(carts, r.cartId, r.read)
          THEN /\ carts' = carts
               /\ requests' = [requests EXCEPT ![p].pc = "done",
                                               ![p].status = 500]
          ELSE /\ carts' = [carts EXCEPT ![r.cartId].cartItems = kept]
               /\ requests' = [requests EXCEPT ![p].pc = "done",
                                               ![p].status = 200]
       /\ UNCHANGED <<inventories, cartItems, nextInventoryId, nextCartId,
                      nextCartItemId, res, users>>

DoBeginRemove ==
    \E p \in Processes, c \in CartIdInputs, n \in ItemNames \cup CustomNames :
        BeginRemove(p, c, n)

DoFindToRemove == \E p \in Processes : FindToRemove(p)

DoDeleteFound == \E p \in Processes : DeleteFound(p)

DoDecideCart == \E p \in Processes : DecideCart(p)

\* one requester's adds and the administrator's removes, two requests at a
\* time, interleaved at their awaits
NextRemoveRace ==
    \/ DoCreateInventory({"tape"})
    \/ DoBeginAddItemsFor({1})
    \/ DoBeginAddCustomItemFor({1})
    \/ DoLookup
    \/ DoWrite
    \/ DoSaveCart
    \/ DoBeginRemove
    \/ DoFindToRemove
    \/ DoDeleteFound
    \/ DoDecideCart
    \/ DoRespond

SpecRemoveRace == Init /\ [][NextRemoveRace]_vars

----------------------------------------------------------------------------
(* Catalog updates while carts hold line items *)

\* the one-item batches of quantity 1
SingleAddInputs == [1..1 -> [item_id : InventoryIdInputs, ordered_quantity : {1}]]

DoAddItemsWith(userIds, inputs) ==
    /\ \E u \in userIds, items \in inputs : AddItems(u, items)
    /\ UNCHANGED session

DoUpdateInventoryItems ==
    /\ \E id \in InventoryIdInputs, r \in Remarks : UpdateInventoryItems(id, r)
    /\ UNCHANGED session

\* the catalog is created, renamed, updated and annotated while requesters
\* add its items one at a time
NextRename ==
    \/ DoCreateInventory(ItemNames)
    \/ DoUpdateInventoryWith(ItemNames, {1}, ItemStatusEnum)
    \/ DoUpdateInventoryItems
    \/ DoAddItemsWith(UserIds, SingleAddInputs)

SpecRename == Init /\ [][NextRename]_vars

----------------------------------------------------------------------------
(* The two deletes of a catalog delete, in either order *)

\* a DELETE /inventory/:id request whose two deletes have been issued: the
\* id, the deletes not yet done, and the results awaited by Promise.all
Deleting(id) ==
    [pc |-> "deleting", route |-> "delete-inventory", id |-> id,
     pending |-> {"catalog", "lineItems"},
     deletedItem |-> Null, deletedCount |-> 0, status |-> 0]

\* the Inventory and the CartItem collections
Collections == [inventories |-> inventories, cartItems |-> cartItems]

\* Inventory.findByIdAndDelete(id)
DeleteCatalogStep(s, id) ==
    [s EXCEPT !.inventories = FindByIdAndDelete(@, id)]

\* a cascade that first resolves the catalog item: nothing to delete once
\* the item is gone
DeleteLineItemsOfListed(s, id) ==
    IF id \in DOMAIN s.inventories
    THEN [s EXCEPT !.cartItems = DeleteManyByItemId(@, id)]
    ELSE s

\* CartItem.deleteMany({ item_id: retardId })
DeleteLineItemsStep(s, id) ==
    [s EXCEPT !.cartItems = DeleteManyByItemId(@, id)]

\* no request is under way
Quiet == \A p \in Processes : requests[p].pc = "idle"

\* Promise.all([...]): both deletes are issued
BeginDelete(p, id) ==
    /\ Quiet
    /\ requests' = [requests EXCEPT ![p] = Deleting(id)]
    /\ UNCHANGED <<store, res, users>>

\* the response once both deletes are done
DeleteDecided(r) ==
    IF r.pending # {} THEN r
    ELSE [r EXCEPT !.pc = "done",
                   !.status = IF r.deletedItem = Null THEN 404 ELSE 200]

\* the server executes Inventory.findByIdAndDelete(id)
DeleteCatalogItem(p) ==
    LET r == requests[p]
        after == DeleteCatalogStep(Collections, r.id)
    IN /\ r.pc = "deleting"
       /\ "catalog" \in r.pending
       /\ inventories' = after.inventories
       /\ cartItems' = after.cartItems
       /\ requests' =
            [requests EXCEPT
               ![p] = DeleteDecided(
                        [r EXCEPT !.pending = @ \ {"catalog"},
                                  !.deletedItem =
                                      IF r.id \in DOMAIN inventories
                                      THEN r.id ELSE Null])]
       /\ UNCHANGED <<carts, nextInventoryId, nextCartId, nextCartItemId,
                      res, users>>

\* the server executes CartItem.deleteMany({ item_id })
DeleteLineItems(p) ==
    LET r == requests[p]
        after == DeleteLineItemsStep(Collections, r.id)
    IN /\ r.pc = "deleting"
       /\ "lineItems" \in r.pending
       /\ inventories' = after.inventories
       /\ cartItems' = after.cartItems
       /\ requests' =
            [requests EXCEPT
               ![p] = DeleteDecided(
                        [r EXCEPT !.pending = @ \ {"lineItems"},
                                  !.deletedCount =
                                      Cardinality(DOMAIN cartItems
                                                  \ DOMAIN after.cartItems)])]
       /\ UNCHANGED <<carts, nextInventoryId, nextCartId, nextCartItemId,
                      res, users>>

DoBeginDelete ==
    \E p \in Processes, id \in InventoryIdInputs : BeginDelete(p, id)

DoDeleteCatalogItem == \E p \in Processes : DeleteCatalogItem(p)

DoDeleteLineItems == \E p \in Processes : DeleteLineItems(p)

\* catalog deletes whose two deletes run in either order, with nothing else
\* served while one is under way
NextDelete ==
    \/ Quiet /\ DoCreateInventory(ItemNames)
    \/ Quiet /\ DoAddItemsWith(UserIds, SingleAddInputs)
    \/ DoBeginDelete
    \/ DoDeleteCatalogItem
    \/ DoDeleteLineItems
    \/ DoRespond

SpecDelete == Init /\ [][NextDelete]_vars

----------------------------------------------------------------------------
(* Properties of concurrent adds (SpecRace) *)

\* C13: whatever the interleaving of concurrent add-items and
\* add-custom-item requests, two first adds of one requester included, the
\* Cart collection never holds two carts with the same requester id.
C13_OneCartPerRequester ==
    \A c, d \in DOMAIN carts : carts[c].userId = carts[d].userId => c = d

\* two first adds of one requester have raced: both constructed a cart, one
\* is stored and the other's insert was rejected
C13_Witness ==
    \E p, q \in Processes :
        /\ p # q
        /\ requests[p].pc = "done" /\ requests[q].pc = "done"
        /\ requests[p].isNew /\ requests[q].isNew
        /\ requests[p].userId = requests[q].userId
        /\ requests[p].status = 200 /\ requests[q].status = 500
        /\ requests[p].cartId \in DOMAIN carts

\* C14: when two first adds of one requester have raced, both found their
\* items and both are decided, both report success and every line item
\* either of them created is referenced by the requester's one cart.
C14_RaceLoserFallsBack ==
    \A p, q \in Processes :
        (/\ p # q
         /\ requests[p].pc = "done" /\ requests[q].pc = "done"
         /\ requests[p].isNew /\ requests[q].isNew
         /\ requests[p].userId = requests[q].userId
         /\ requests[p].status # 404 /\ requests[q].status # 404)
        => /\ requests[p].status = 200 /\ requests[q].status = 200
           /\ \E c \in DOMAIN carts :
                  /\ carts[c].userId = requests[p].userId
                  /\ \A n \in 1..Len(requests[p].pushed) :
                         \E m \in 1..Len(carts[c].cartItems) :
                             carts[c].cartItems[m] = requests[p].pushed[n]
                  /\ \A n \in 1..Len(requests[q].pushed) :
                         \E m \in 1..Len(carts[c].cartItems) :
                             carts[c].cartItems[m] = requests[q].pushed[n]

----------------------------------------------------------------------------
(* Properties of the access gate (SpecAccess) *)

\* the role stored for the caller, Undefined when the token names no account
StoredRole(token) ==
    IF token.kind = "valid" /\ token.id \in DOMAIN users
    THEN users[token.id].access ELSE Undefined

\* C15: a request is admitted only when the caller's stored role equals the
\* role the route requires; a bosslevel caller is denied on every user-only
\* route and a user caller on every bosslevel-only route, and a request that
\* is not admitted mutates no store.
C15_GateRequiresExactRole ==
    [][res'.route \in Routes =>
         \A token \in Tokens :
             Request(token, res'.route) =>
                 LET required == RequiredAccess[res'.route]
                 IN /\ StoredRole(token) = required =>
                           res'.error \notin GateErrors
                    /\ StoredRole(token) # required =>
                           /\ res'.error \in GateErrors
                           /\ UNCHANGED store
                    /\ (StoredRole(token) \in Roles
                            /\ StoredRole(token) # required) =>
                           res' = Response(res'.route, 403, "access denied")
      ]_vars

\* a bosslevel caller has just been denied on add-items while carts exist
C15_Witness ==
    /\ res = Response("add-items", 403, "access denied")
    /\ carts # <<>>
    /\ \E u \in DOMAIN users : users[u].access = "bosslevel"

\* the catalog mutations and the administrative operations
BossOperations ==
    {"create-inventory", "update-inventory", "delete-inventory",
     "update-inventory-items", "cart-items-user", "get-club-list",
     "cart-item-summary", "cart-item-summary-custom",
     "update-cart-item-status", "update-multiple-cart-items",
     "update-items-status", "remove-item", "remove-cart"}

\* cart self-service
UserOperations == {"add-items", "add-custom-item", "cart-items-final"}

\* C16: the handler of a catalog mutation or of an administrative operation
\* runs only for a caller whose role is bosslevel, and the handler of
\* add-items, add-custom-item and the requester's cart view only for a
\* caller whose role is user.
C16_OperationsNeedTheirRole ==
    [][res'.route \in BossOperations \cup UserOperations =>
         \A token \in Tokens :
             (Request(token, res'.route) /\ res'.error \notin GateErrors) =>
                 StoredRole(token) = IF res'.route \in BossOperations
                                     THEN "bosslevel" ELSE "user"
      ]_vars

\* an administrator has deleted a cart while a user account exists
C16_Witness ==
    /\ res = Response("remove-cart", 200, "")
    /\ \E u, v \in DOMAIN users :
           users[u].access = "bosslevel" /\ users[v].access = "user"

\* C17: a caller admitted to add-items or add-custom-item changes only the
\* cart whose requester id is the caller's own id, and a caller admitted to
\* the requester's cart view is shown only that cart.
C17_SelfServiceOwnCartOnly ==
    [][/\ res'.route = "add-items" =>
              \A token \in Tokens, u \in UserIds, items \in GatedAddItemsInputs :
                  (/\ AuthMiddleware(token, RequiredAccess["add-items"]).status = 0
                   /\ AddItems(u, items)
                   /\ res'.status = 200)
                  => u = token.id
       /\ res'.route = "add-custom-item" =>
              \A token \in Tokens, u \in UserIds :
                  (/\ AuthMiddleware(token,
                                     RequiredAccess["add-custom-item"]).status = 0
                   /\ AddCustomItem(u, "rope", 1, <<>>)
                   /\ res'.status = 200)
                  => u = token.id
       /\ res'.route = "cart-items-final" =>
              \A token \in Tokens, u \in UserIds :
                  (/\ AuthMiddleware(token,
                                     RequiredAccess["cart-items-final"]).status = 0
                   /\ CartItemsOf("cart-items-final", u)
                   /\ res'.status = 200)
                  => u = token.id
      ]_vars

----------------------------------------------------------------------------
(* Properties of cart deletion (SpecRemoveCart) *)

\* C19: delete-cart on an existing cart removes the cart and every line item
\* whose cart reference is that cart and leaves all other carts and line
\* items unchanged; on an absent cart id it fails with NotFound and leaves
\* every store unchanged.
C19_RemoveCartCascades ==
    [][res'.route = "remove-cart" =>
         \A c \in CartIdInputs :
             RemoveCart(c) =>
                 IF c \in DOMAIN carts
                 THEN /\ res'.status = 200
                      /\ c \notin DOMAIN carts'
                      /\ \A k \in DOMAIN cartItems' : cartItems'[k].cart # c
                      /\ \A d \in DOMAIN carts \ {c} :
                             d \in DOMAIN carts' /\ carts'[d] = carts[d]
                      /\ \A k \in DOMAIN cartItems :
                             cartItems[k].cart # c =>
                                 /\ k \in DOMAIN cartItems'
                                 /\ cartItems'[k] = cartItems[k]
                 ELSE /\ res'.status = 404
                      /\ UNCHANGED store]_vars

----------------------------------------------------------------------------
(* Properties of the catalog routes (SpecCatalog) *)

\* no two catalog items have the same name
UniqueNames(invs) ==
    \A i, j \in DOMAIN invs : invs[i].itemName = invs[j].itemName => i = j

\* C20: catalog creates and updates never leave two catalog items with the
\* same name; an update that would give an item another item's name fails
\* with the unique-name conflict and changes neither item, and an update of
\* an absent id fails with NotFound and changes nothing.
C20_UpdateKeepsNamesUnique ==
    [][/\ UniqueNames(inventories')
       /\ res'.route = "update-inventory" =>
              \A id \in InventoryIdInputs, n \in ItemNames,
                 q \in UpdateQuantityInputs, s \in UpdateItemStatusInputs :
                  (UpdateInventory(id, n, q, s)
                       /\ ValidInventoryInput(q, s)) =>
                      /\ id \notin DOMAIN inventories =>
                             /\ res' = Response("update-inventory", 404,
                                                "not found")
                             /\ UNCHANGED store
                      /\ (/\ id \in DOMAIN inventories
                          /\ \E j \in DOMAIN inventories \ {id} :
                                 inventories[j].itemName = n) =>
                             /\ res' = Response("update-inventory", 400,
                                                "unique")
                             /\ UNCHANGED store
      ]_vars

\* an update has just been refused the name of the other catalog item, and
\* an earlier one has changed an item
C20_Witness ==
    /\ res = Response("update-inventory", 400, "unique")
    /\ Cardinality(DOMAIN inventories) = 2
    /\ \E i \in DOMAIN inventories : inventories[i].itemQuantity = 1


----------------------------------------------------------------------------
(* Properties of updates that meet on one line item (SpecStatus) *)

\* C21: from every reachable state, a strict batch that lists one existing
\* line item twice, each time with a delta, leaves its allotted quantity at
\* the value before the batch plus both deltas, whether the two reads are
\* answered before the first save or each just before its own save.
C21_NoAllotmentLost ==
    \A items \in UpdateMultipleInputs, overlap \in BOOLEAN :
        (/\ Len(items) = 2
         /\ items[1].id = items[2].id
         /\ items[1].id \in DOMAIN cartItems
         /\ Has(items[1].body, "allotted_quantity")
         /\ Has(items[2].body, "allotted_quantity"))
        => LET r == UpdateMultipleResult(items, overlap)
               id == items[1].id
           IN /\ r.status = 200
              /\ r.cartItems[id].allotted_quantity =
                     cartItems[id].allotted_quantity
                         + SuppliedDelta(items[1].body)
                         + SuppliedDelta(items[2].body)


----------------------------------------------------------------------------
(* Properties of adds that meet on one line item (SpecRace) *)

\* the catalog item and the quantity of every racing add-items request
RacedItem == CHOOSE i \in {items[1].item_id : items \in RaceAddItemsInputs} : TRUE

RacedQuantity ==
    CHOOSE q \in {items[1].ordered_quantity : items \in RaceAddItemsInputs} : TRUE

\* C22: when two add-items requests that add the same catalog item to the
\* same cart, a cart that existed before either began, are both decided and
\* both succeeded, the cart has exactly one line item for that catalog item
\* and it requests what the earlier of the two reads found plus both added
\* quantities.
C22_ConcurrentAddsMerge ==
    \A p, q \in Processes :
        (/\ p # q
         /\ requests[p].pc = "done" /\ requests[q].pc = "done"
         /\ requests[p].route = "add-items" /\ requests[q].route = "add-items"
         /\ requests[p].status = 200 /\ requests[q].status = 200
         /\ ~requests[p].isNew /\ ~requests[q].isNew
         /\ requests[p].cartId = requests[q].cartId)
        => LET found == LineItemsFor(cartItems, requests[p].cartId, RacedItem)
           IN /\ Cardinality(found) = 1
              /\ \A k \in found :
                     cartItems[k].ordered_quantity =
                         Min({requests[p].fetched, requests[q].fetched})
                             + RacedQuantity + RacedQuantity


----------------------------------------------------------------------------
(* Properties of cart ownership (SpecCart) *)

\* the positions of cart c's array that hold line item k
PositionsOf(cs, c, k) ==
    {n \in 1..Len(cs[c].cartItems) : cs[c].cartItems[n] = k}

\* C23: after any sequence of completed adds, removes and catalog deletes,
\* every id in a cart's array is an existing line item of that cart, and
\* every existing line item's cart exists and lists it exactly once.
C23_OwnershipConsistent ==
    /\ \A c \in DOMAIN carts :
           \A n \in 1..Len(carts[c].cartItems) :
               /\ carts[c].cartItems[n] \in DOMAIN cartItems
               /\ cartItems[carts[c].cartItems[n]].cart = c
    /\ \A k \in DOMAIN cartItems :
           /\ cartItems[k].cart \in DOMAIN carts
           /\ Cardinality(PositionsOf(carts, cartItems[k].cart, k)) = 1


----------------------------------------------------------------------------
(* Properties of a failed add (SpecCart) *)

\* C24: from every reachable state, an add-items batch that fails because
\* one of its catalog item ids does not resolve leaves the line items and
\* the carts exactly as they were.
C24_FailedAddChangesNothing ==
    \A u \in UserIds, items \in AddItemsInputs :
        LET r == AddItemsResult(u, items)
        IN (ValidAddItems(items) /\ r.status = 404) =>
               /\ r.cartItems = cartItems
               /\ r.carts = carts


----------------------------------------------------------------------------
(* Properties of the allotted quantity (SpecValidation) *)

\* C25: in every reachable state, whatever single and strict-batch
\* update-status calls have been made, every line item's allotted quantity
\* is at least 0.
C25_AllottedNeverNegative ==
    \A k \in DOMAIN cartItems : cartItems[k].allotted_quantity >= 0


----------------------------------------------------------------------------
(* Properties of a remove-item that meets an add (SpecRemoveRace) *)

\* C26: a remove-item reaches its decision about the cart only with the
\* line item it found deleted, and no step of it, under any interleaving
\* with add requests on the same cart, deletes a cart under which a line
\* item is still stored or takes from a cart's array the id of a line item
\* that still exists.
C26_RemoveItemSequenced ==
    [][/\ \A p \in Processes :
              requests'[p].pc = "decide" =>
                  requests'[p].existing \notin DOMAIN cartItems'
       /\ \A c \in DOMAIN carts :
              IF c \notin DOMAIN carts'
              THEN \A k \in DOMAIN cartItems' : cartItems'[k].cart # c
              ELSE \A n \in 1..Len(carts[c].cartItems) :
                       LET k == carts[c].cartItems[n]
                       IN PositionsOf(carts', c, k) = {} =>
                              k \notin DOMAIN cartItems'
      ]_vars


----------------------------------------------------------------------------
(* Properties of catalog updates seen from the carts (SpecRename) *)

\* C27: a catalog update or annotate, whatever it answers, leaves every
\* cart and every line item as it was; and a successful add-items, for each
\* catalog item the requester's cart already has a line item for, creates
\* no other line item for it, adds the batch's quantity to it and leaves
\* its display name as it was, whatever the catalog item is named now.
C27_RenameKeepsLineItems ==
    [][/\ res'.route \in {"update-inventory", "update-inventory-items"} =>
              cartItems' = cartItems /\ carts' = carts
       /\ res'.route = "add-items" =>
              \A u \in UserIds, items \in SingleAddInputs :
                  (AddItems(u, items) /\ res'.status = 200) =>
                      \A c \in CartsOf(carts, u), i \in InventoryIdInputs :
                          LET before == LineItemsFor(cartItems, c, i)
                          IN before # {} =>
                                 /\ LineItemsFor(cartItems', c, i) = before
                                 /\ \A k \in before :
                                        /\ cartItems'[k].itemName =
                                               cartItems[k].itemName
                                        /\ cartItems'[k].ordered_quantity =
                                               cartItems[k].ordered_quantity
                                                   + BatchQuantity(items, i)
      ]_vars

\* the only line item ever created has been merged into by a later add of
\* its catalog item, which by then carries another name
C27_Witness ==
    /\ res = Response("add-items", 200, "")
    /\ nextCartItemId = 2
    /\ 1 \in DOMAIN cartItems
    /\ cartItems[1].ordered_quantity = 2
    /\ cartItems[1].item_id \in DOMAIN inventories
    /\ inventories[cartItems[1].item_id].itemName # cartItems[1].itemName


----------------------------------------------------------------------------
(* Properties of the catalog-filtered batch on custom items (SpecUpdateItems) *)

\* the positions of a batch that list a custom line item
CustomPositions(items) ==
    {n \in 1..Len(items) : items[n].id \in CustomItems}

\* C28: from every reachable state, a catalog-filtered batch of remarks
\* whose ids all exist and which lists a custom line item does not fail,
\* leaves the custom line item as it was, and stores the remark of every
\* other line item it lists once whose catalog reference resolves.
C28_FilteredBatchSkipsCustom ==
    \A items \in UpdateItemsInputs :
        (/\ \A n \in 1..Len(items) :
                /\ items[n].id \in DOMAIN cartItems
                /\ ~Has(items[n].body, "status")
         /\ CustomPositions(items) # {})
        => LET r == UpdateItemsResult(items)
           IN /\ r.status = 200
              /\ \A n \in CustomPositions(items) :
                     r.cartItems[items[n].id] = cartItems[items[n].id]
              /\ \A m \in 1..Len(items) \ CustomPositions(items) :
                     (/\ Resolves(cartItems[items[m].id])
                      /\ ListedOnce(items, m)
                      /\ Has(items[m].body, "remarks"))
                     => r.cartItems[items[m].id].remarks =
                            items[m].body.remarks


----------------------------------------------------------------------------
(* Properties of the two deletes of a catalog delete (SpecDelete) *)

\* the catalog deletes under way or decided
Deletes ==
    {p \in Processes : requests[p].pc \in {"deleting", "done"}}

\* C29: from every reachable state and for every id, deleting the catalog
\* item and then the line items that reference it gives the same catalog
\* and the same line items as the two deletes in the other order, with the
\* item absent and no line item referencing it; and in a catalog delete
\* served alone, whichever delete is done first has had its effect and
\* once both are done the item is absent and no line item references it.
C29_DeleteStepsCommute ==
    /\ \A id \in InventoryIdInputs :
           LET one == DeleteLineItemsStep(DeleteCatalogStep(Collections, id), id)
               other == DeleteCatalogStep(DeleteLineItemsStep(Collections, id), id)
           IN /\ one = other
              /\ id \notin DOMAIN one.inventories
              /\ \A k \in DOMAIN one.cartItems : one.cartItems[k].item_id # id
    /\ \A p \in Deletes :
           /\ "catalog" \notin requests[p].pending =>
                  requests[p].id \notin DOMAIN inventories
           /\ "lineItems" \notin requests[p].pending =>
                  \A k \in DOMAIN cartItems :
                      cartItems[k].item_id # requests[p].id

\* a catalog delete served to the end has found the catalog item and has
\* deleted a line item that a cart still lists
C29_Witness ==
    \E p \in Processes :
        /\ requests[p].pc = "done"
        /\ requests[p].route = "delete-inventory"
        /\ requests[p].status = 200
        /\ requests[p].deletedCount >= 1
        /\ \E c \in DOMAIN carts :
               \E n \in 1..Len(carts[c].cartItems) :
                   carts[c].cartItems[n] \notin DOMAIN cartItems


----------------------------------------------------------------------------
(* Properties of the requested quantity (SpecRace) *)

\* C30: no step of an add-items or add-custom-item request, under any
\* interleaving, leaves a line item requesting less than 1 or lowers the
\* requested quantity of a line item that exists.
C30_RequestedNeverLowered ==
    [][/\ \A k \in DOMAIN cartItems' : cartItems'[k].ordered_quantity >= 1
       /\ \A k \in DOMAIN cartItems :
              k \in DOMAIN cartItems' =>
                  cartItems'[k].ordered_quantity
                      >= cartItems[k].ordered_quantity]_vars

====
